---- MODULE Spec2Model ----
(***************************************************************************)
(* The JSON coverage exporter of llvm-cov (CoverageExporterJson.cpp):      *)
(* renderRoot prepares the per-file summaries, renderFiles renders every   *)
(* file on a thread pool and collects the file objects in FileArray under  *)
(* FileArrayMutex, renderRoot sorts the array by filename, assembles the   *)
(* export object and writes the enveloped document to the stream OS.       *)
(*                                                                         *)
(* A string is a sequence of bytes, a JSON object a function from its keys *)
(* to its values, a JSON array a sequence.                                 *)
(***************************************************************************)
EXTENDS Integers, Sequences, FiniteSets, Bags, TLC

\* ------------------------------------------------------------------ bounds

\* Longest list of source files handed to renderRoot.
MaxFiles == 3
\* Largest configured Options.NumThreads (0 asks for the derived count).
MaxThreads == 3
\* Largest value heavyweight_hardware_concurrency() reports.
MaxHW == 2
\* Largest counter (execution count, number of lines, ...) of the mapping.
MaxCount == 100

\* ----------------------------------------------------------- the environment

\* The file names the coverage mapping knows: "a", "ab", "B" (ASCII, so
\* valid UTF-8 as json::Value requires). Byte-wise order: B < a < ab.
Names == << <<97>>, <<97, 98>>, <<66>> >>

NameSet == {Names[i] : i \in DOMAIN Names}

NameIndex(Filename) == CHOOSE i \in DOMAIN Names : Names[i] = Filename

\* The lists of file names renderRoot may be handed, at most MaxFiles long.
\* The mapping provider hands out unique source files; an explicit list may
\* name a file twice.
FileLists == UNION {[1..n -> NameSet] : n \in 0..MaxFiles}

Distinct(List) ==
  \A i, j \in 1..Len(List) : i # j => List[i] # List[j]

\* The coverage data of a file: its segments, in the provider's order, and
\* its expansion records.
getCoverageForFile(Filename) ==
  LET k == NameIndex(Filename) IN
  [Segments |->
     [i \in 1..Len(Filename) |->
        [Line |-> 10 * i, Col |-> k, Count |-> i - 1,
         HasCount |-> i > 1, IsRegionEntry |-> i = 1]],
   Expansions |->
     IF Len(Filename) > 1
       THEN << [Region |-> [LineStart |-> 1, ColumnStart |-> k, LineEnd |-> 2,
                            ColumnEnd |-> 1, ExecutionCount |-> 1, FileID |-> 0,
                            ExpandedFileID |-> 1, Kind |-> 1],
                Function |-> [Filenames |-> <<Filename>>,
                              CountedRegions |-> <<>>]] >>
       ELSE <<>>]

\* The function records of the mapping, whatever files are exported.
getCoveredFunctions ==
  << [Name |-> "f", ExecutionCount |-> 2,
      CountedRegions |-> << [LineStart |-> 1, ColumnStart |-> 1, LineEnd |-> 3,
                             ColumnEnd |-> 2, ExecutionCount |-> 2, FileID |-> 0,
                             ExpandedFileID |-> 0, Kind |-> 0] >>,
      Filenames |-> << Names[1] >>] >>

\* The summarizer's counters of one file; no two files have the same.
SummaryOf(Filename) ==
  LET k == NameIndex(Filename) IN
  [LineCoverage |-> [NumLines |-> k + 1, Covered |-> k],
   FunctionCoverage |-> [NumFunctions |-> 1, Executed |-> k % 2],
   InstantiationCoverage |-> [NumFunctions |-> 2, Executed |-> k % 2],
   RegionCoverage |-> [NumRegions |-> k, Covered |-> k - 1]]

EmptySummary ==
  [LineCoverage |-> [NumLines |-> 0, Covered |-> 0],
   FunctionCoverage |-> [NumFunctions |-> 0, Executed |-> 0],
   InstantiationCoverage |-> [NumFunctions |-> 0, Executed |-> 0],
   RegionCoverage |-> [NumRegions |-> 0, Covered |-> 0]]

AddSummary(T, S) ==
  [LineCoverage |->
     [NumLines |-> T.LineCoverage.NumLines + S.LineCoverage.NumLines,
      Covered |-> T.LineCoverage.Covered + S.LineCoverage.Covered],
   FunctionCoverage |->
     [NumFunctions |-> T.FunctionCoverage.NumFunctions
                         + S.FunctionCoverage.NumFunctions,
      Executed |-> T.FunctionCoverage.Executed + S.FunctionCoverage.Executed],
   InstantiationCoverage |->
     [NumFunctions |-> T.InstantiationCoverage.NumFunctions
                         + S.InstantiationCoverage.NumFunctions,
      Executed |-> T.InstantiationCoverage.Executed
                     + S.InstantiationCoverage.Executed],
   RegionCoverage |->
     [NumRegions |-> T.RegionCoverage.NumRegions + S.RegionCoverage.NumRegions,
      Covered |-> T.RegionCoverage.Covered + S.RegionCoverage.Covered]]

\* The sum of one number of the summaries.
RECURSIVE Total(_, _, _)
Total(Reports, Metric, Field) ==
  IF Reports = <<>> THEN 0
  ELSE Head(Reports)[Metric][Field] + Total(Tail(Reports), Metric, Field)

\* The aggregate of the summaries: each number is the sum over the files.
SumSummaries(Reports) ==
  [LineCoverage |->
     [NumLines |-> Total(Reports, "LineCoverage", "NumLines"),
      Covered |-> Total(Reports, "LineCoverage", "Covered")],
   FunctionCoverage |->
     [NumFunctions |-> Total(Reports, "FunctionCoverage", "NumFunctions"),
      Executed |-> Total(Reports, "FunctionCoverage", "Executed")],
   InstantiationCoverage |->
     [NumFunctions |-> Total(Reports, "InstantiationCoverage", "NumFunctions"),
      Executed |-> Total(Reports, "InstantiationCoverage", "Executed")],
   RegionCoverage |->
     [NumRegions |-> Total(Reports, "RegionCoverage", "NumRegions"),
      Covered |-> Total(Reports, "RegionCoverage", "Covered")]]

\* CoverageReport::prepareFileReports: one summary per file, paired by index
\* with the file list, and their aggregate.
prepareFileReports(Files) ==
  LET Reports == [i \in 1..Len(Files) |-> SummaryOf(Files[i])] IN
  [FileReports |-> Reports, Totals |-> SumSummaries(Reports)]

\* getPercentCovered: 0 for an empty metric, else covered / count * 100, kept
\* as the exact fraction <<numerator, denominator>>.
PercentCovered(Covered, Count) ==
  IF Count = 0 THEN <<0, 1>> ELSE <<100 * Covered, Count>>

\* StringRef::compare: the first differing byte decides, then the length.
RECURSIVE compare(_, _)
compare(A, B) ==
  IF A = <<>> \/ B = <<>>
    THEN (IF A = B THEN 0 ELSE IF A = <<>> THEN -1 ELSE 1)
    ELSE IF Head(A) < Head(B) THEN -1
    ELSE IF Head(A) > Head(B) THEN 1
    ELSE compare(Tail(A), Tail(B))

\* ------------------------------------------------------------ JSON helpers

\* json::Object::operator[] followed by an assignment.
Put(Obj, Key, Val) ==
  [k \in DOMAIN Obj \cup {Key} |-> IF k = Key THEN Val ELSE Obj[k]]

\* int64_t(X) of an unsigned 64-bit counter X is X itself while X < 2^63.
\* Every counter of the mapping above is at most MaxCount, far below 2^63;
\* the conversion is left undefined beyond it rather than guessed.
Int64(X) == CASE X \in 0..MaxCount -> X

\* A - B on size_t: the difference modulo 2^64, kept as the exact difference
\* Low and whether the subtraction borrowed (the value is then Low + 2^64).
SizeSub(A, B) == [Borrow |-> A < B, Low |-> A - B]

\* int64_t(U) of such a difference: a borrowed one is at least 2^64 - MaxCount,
\* so above 2^63, and converts to its value less 2^64.
Int64OfSize(U) == IF U.Borrow THEN U.Low ELSE Int64(U.Low)

\* -------------------------------------------------------- schema renderers

renderSegment(Segment) ==
  << Segment.Line, Segment.Col, Int64(Segment.Count),
     Segment.HasCount, Segment.IsRegionEntry >>

renderRegion(Region) ==
  << Region.LineStart, Region.ColumnStart, Region.LineEnd, Region.ColumnEnd,
     Int64(Region.ExecutionCount), Region.FileID, Region.ExpandedFileID,
     Region.Kind >>

renderRegions(Regions) ==
  [i \in 1..Len(Regions) |-> renderRegion(Regions[i])]

renderExpansion(Expansion) ==
  [filenames |-> Expansion.Function.Filenames,
   source_region |-> renderRegion(Expansion.Region),
   target_regions |-> renderRegions(Expansion.Function.CountedRegions)]

\* A slip: the covered regions are not subtracted.
NotCoveredIsCount(RegionCoverage) == Int64(RegionCoverage.NumRegions)

\* The regions not covered: the unsigned difference, converted.
NotCovered(RegionCoverage) ==
  Int64OfSize(SizeSub(RegionCoverage.NumRegions, RegionCoverage.Covered))

renderSummary(Summary) ==
  [lines |->
     [count |-> Int64(Summary.LineCoverage.NumLines),
      covered |-> Int64(Summary.LineCoverage.Covered),
      percent |-> PercentCovered(Summary.LineCoverage.Covered,
                                 Summary.LineCoverage.NumLines)],
   functions |->
     [count |-> Int64(Summary.FunctionCoverage.NumFunctions),
      covered |-> Int64(Summary.FunctionCoverage.Executed),
      percent |-> PercentCovered(Summary.FunctionCoverage.Executed,
                                 Summary.FunctionCoverage.NumFunctions)],
   instantiations |->
     [count |-> Int64(Summary.InstantiationCoverage.NumFunctions),
      covered |-> Int64(Summary.InstantiationCoverage.Executed),
      percent |-> PercentCovered(Summary.InstantiationCoverage.Executed,
                                 Summary.InstantiationCoverage.NumFunctions)],
   regions |->
     [count |-> Int64(Summary.RegionCoverage.NumRegions),
      covered |-> Int64(Summary.RegionCoverage.Covered),
      notcovered |-> NotCovered(Summary.RegionCoverage),
      percent |-> PercentCovered(Summary.RegionCoverage.Covered,
                                 Summary.RegionCoverage.NumRegions)]]

renderFileExpansions(FileCoverage) ==
  [i \in 1..Len(FileCoverage.Expansions) |->
     renderExpansion(FileCoverage.Expansions[i])]

\* A slip: the segments are collected back to front.
renderFileSegmentsReversed(FileCoverage) ==
  [i \in 1..Len(FileCoverage.Segments) |->
     renderSegment(FileCoverage.Segments[Len(FileCoverage.Segments) + 1 - i])]

renderFileSegments(FileCoverage) ==
  [i \in 1..Len(FileCoverage.Segments) |->
     renderSegment(FileCoverage.Segments[i])]

renderFunction(F) ==
  [name |-> F.Name, count |-> Int64(F.ExecutionCount),
   regions |-> renderRegions(F.CountedRegions), filenames |-> F.Filenames]

renderFunctions(Functions) ==
  [i \in 1..Len(Functions) |-> renderFunction(Functions[i])]

\* A slip: the details are rendered whatever ExportSummaryOnly says.
WithDetailsAlways(Opts) == TRUE

WithDetails(Opts) == ~Opts.ExportSummaryOnly

\* A slip: the expansions are rendered whatever SkipExpansions says.
WithExpansionsAlways(Opts) == TRUE

WithExpansions(Opts) == ~Opts.SkipExpansions

\* A slip: the name is stored under another key.
NewFileNamed(Filename) == [name |-> Filename]

\* json::Object File({{"filename", Filename}}): the object renderFile starts
\* from, whatever the options.
NewFile(Filename) == [filename |-> Filename]

\* renderFile: the file object of one file. Segments and expansions are
\* rendered unless only the summary is exported, expansions unless skipped.
renderFile(Filename, FileReport, Opts) ==
  LET Obj == NewFile(Filename)
      FileCoverage == getCoverageForFile(Filename)
      WithSegments == Put(Obj, "segments", renderFileSegments(FileCoverage))
      Detailed ==
        IF WithDetails(Opts)
          THEN IF WithExpansions(Opts)
                 THEN Put(WithSegments, "expansions",
                          renderFileExpansions(FileCoverage))
                 ELSE WithSegments
          ELSE Obj
  IN Put(Detailed, "summary", renderSummary(FileReport))

\* ------------------------------------------------------------------- state

VARIABLES
  Caller,         \* the overload of renderRoot called: "filters" or "list"
  IgnoreFilters,  \* renderRoot(IgnoreFilters): the file names the filters match
  Options,        \* CoverageViewOptions: ExportSummaryOnly, SkipExpansions,
                  \* SkipFunctions, NumThreads
  SourceFiles,    \* the file list handed to renderRoot
  FileReports,    \* renderRoot: the summaries, paired by index with SourceFiles
  Totals,         \* renderRoot: the aggregate summary
  pc,             \* the position of the thread that called renderRoot
  I,              \* renderFiles: the number of tasks submitted so far
  hw,             \* what heavyweight_hardware_concurrency() returned (-1: not asked)
  NumThreads,     \* renderFiles: the size of Pool (0: no pool yet)
  Tasks,          \* Pool: the queue of submitted tasks not yet picked up
  task,           \* the position of each per-file task
  File,           \* each task's local File ("none" outside its lifetime)
  FileArray,      \* renderFiles: the shared result array
  FileArrayMutex, \* the task holding the mutex (0: free)
  Files,          \* renderRoot: the array renderFiles returned
  Export,         \* renderRoot: the export object
  OS              \* the output stream: the documents written to it

vars == << Caller, IgnoreFilters, Options, SourceFiles, FileReports, Totals, pc, I, hw, NumThreads,
           Tasks, task, File, FileArray, FileArrayMutex, Files, Export, OS >>

NoFile == [none |-> TRUE]

TaskIds == 1..Len(SourceFiles)

OptionSets ==
  [ExportSummaryOnly : BOOLEAN, SkipExpansions : BOOLEAN,
   SkipFunctions : BOOLEAN, NumThreads : 0..MaxThreads]

\* renderRoot is called with ignore filters, or with an explicit file list.
Init ==
  /\ Options \in OptionSets
  /\ \/ /\ Caller = "filters"
        /\ IgnoreFilters \in SUBSET NameSet
        /\ SourceFiles = <<>>
        /\ pc = "renderRootFilters"
     \/ /\ Caller = "list"
        /\ IgnoreFilters = {}
        /\ SourceFiles \in FileLists
        /\ pc = "renderRoot"
  /\ FileReports = <<>>
  /\ Totals = EmptySummary
  /\ I = 0
  /\ hw = -1
  /\ NumThreads = 0
  /\ Tasks = <<>>
  /\ task = [t \in TaskIds |-> "unsubmitted"]
  /\ File = [t \in TaskIds |-> NoFile]
  /\ FileArray = <<>>
  /\ FileArrayMutex = 0
  /\ Files = <<>>
  /\ Export = NoFile
  /\ OS = <<>>

\* ------------------------------------------------------------- renderRoot

\* Coverage.getUniqueSourceFiles(): each file of the mapping once.
getUniqueSourceFiles == Names

\* CoverageFilters::matchesFilename.
matchesFilename(Filters, Filename) == Filename \in Filters

\* A slip: the files the filters match are the ones kept.
KeptIfMatching(SF) == matchesFilename(IgnoreFilters, SF)

\* A file is exported unless the ignore filters match its name.
Kept(SF) == ~matchesFilename(IgnoreFilters, SF)

\* The loop over the unique source files: those kept, in their order.
RECURSIVE KeptFiles(_)
KeptFiles(List) ==
  IF List = <<>> THEN <<>>
  ELSE (IF Kept(Head(List)) THEN <<Head(List)>> ELSE <<>>)
         \o KeptFiles(Tail(List))

\* renderRoot(const CoverageFilters &): the unique source files the filters
\* do not match are collected and handed to renderRoot(ArrayRef).
renderRootFilters ==
  /\ pc = "renderRootFilters"
  /\ SourceFiles' = KeptFiles(getUniqueSourceFiles)
  /\ task' = [t \in 1..Len(SourceFiles') |-> "unsubmitted"]
  /\ File' = [t \in 1..Len(SourceFiles') |-> NoFile]
  /\ pc' = "renderRoot"
  /\ UNCHANGED << Caller, IgnoreFilters, Options, FileReports, Totals, I, hw,
                  NumThreads, Tasks, FileArray, FileArrayMutex, Files, Export,
                  OS >>

\* renderRoot(ArrayRef<std::string>): the summaries of the file list.
renderRoot ==
  /\ pc = "renderRoot"
  /\ LET R == prepareFileReports(SourceFiles) IN
       /\ FileReports' = R.FileReports
       /\ Totals' = R.Totals
  /\ pc' = "renderFiles"
  /\ UNCHANGED << Caller, IgnoreFilters, Options, SourceFiles, I, hw, NumThreads, Tasks, task, File,
                  FileArray, FileArrayMutex, Files, Export, OS >>

\* ------------------------------------------------------------ renderFiles

Max(a, b) == IF a < b THEN b ELSE a

Min(a, b) == IF b < a THEN b ELSE a

\* A slip: the configured count is clamped to the number of files too.
PoolSizeAllClamped(Configured, Hardware, NumFiles) ==
  Max(1, Min(IF Configured = 0 THEN Hardware ELSE Configured, NumFiles))

\* A slip: the floor of one thread is missing.
PoolSizeNoFloor(Configured, Hardware, NumFiles) ==
  IF Configured = 0 THEN Min(Hardware, NumFiles) ELSE Configured

\* A slip: the pool gets one thread per file, whatever is configured.
PoolSizePerFile(Configured, Hardware, NumFiles) == Max(1, NumFiles)

\* A slip: the hardware concurrency is taken as it is.
PoolSizeHardware(Configured, Hardware, NumFiles) ==
  IF Configured = 0 THEN Hardware ELSE Configured

\* The size of the pool: the configured count, or, when that is 0,
\* max(1, min(hardware concurrency, number of files)).
PoolSize(Configured, Hardware, NumFiles) ==
  IF Configured = 0 THEN Max(1, Min(Hardware, NumFiles)) ELSE Configured

\* A slip: the loop stops one file short.
EOneShort == Len(SourceFiles) - 1

\* The loop's bound E.
E == Len(SourceFiles)

\* Where the calling thread is once I tasks are submitted: in the loop, or
\* at Pool.wait().
AfterSubmit(Submitted) == IF Submitted < E THEN "submit" ELSE "wait"

\* The start of renderFiles: the pool is sized and created, FileArray and
\* FileArrayMutex are constructed. The hardware concurrency is asked for
\* only when no thread count is configured.
renderFilesBegin ==
  /\ pc = "renderFiles"
  /\ \E Hardware \in 0..MaxHW :
       /\ hw' = IF Options.NumThreads = 0 THEN Hardware ELSE -1
       /\ NumThreads' = PoolSize(Options.NumThreads, Hardware, Len(SourceFiles))
  /\ FileArray' = <<>>
  /\ FileArrayMutex' = 0
  /\ I' = 0
  /\ pc' = AfterSubmit(0)
  /\ UNCHANGED << Caller, IgnoreFilters, Options, SourceFiles, FileReports, Totals, Tasks, task, File,
                  Files, Export, OS >>

\* One iteration of the loop: Pool.async queues the task of file I.
Submit ==
  /\ pc = "submit"
  /\ I < E
  /\ Tasks' = Append(Tasks, I + 1)
  /\ task' = [task EXCEPT ![I + 1] = "queued"]
  /\ I' = I + 1
  /\ pc' = AfterSubmit(I + 1)
  /\ UNCHANGED << Caller, IgnoreFilters, Options, SourceFiles, FileReports, Totals, hw, NumThreads,
                  File, FileArray, FileArrayMutex, Files, Export, OS >>

\* The tasks a pool thread is running.
Running == {t \in TaskIds : task[t] \in {"render", "lock", "push", "unlock"}}

\* ThreadPool: a thread of the pool is free to pick up a task.
ThreadFree == Cardinality(Running) < NumThreads

\* ThreadPool::wait returns once the queue is empty and no thread is busy.
PoolIdle == Tasks = <<>> /\ Running = {}

\* A free pool thread takes the task at the head of the queue.
Start(t) ==
  /\ Tasks # <<>>
  /\ Head(Tasks) = t
  /\ ThreadFree
  /\ Tasks' = Tail(Tasks)
  /\ task' = [task EXCEPT ![t] = "render"]
  /\ UNCHANGED << Caller, IgnoreFilters, Options, SourceFiles, FileReports, Totals, pc, I, hw,
                  NumThreads, File, FileArray, FileArrayMutex, Files, Export, OS >>

\* A slip: every lambda refers to the elements of the last iteration.
CapturedLast(t) ==
  [SourceFile |-> SourceFiles[t], FileReport |-> FileReports[Len(FileReports)]]

\* What the lambda of task t refers to: the elements of SourceFiles and
\* FileReports bound in iteration t of the loop.
Captured(t) == [SourceFile |-> SourceFiles[t], FileReport |-> FileReports[t]]

\* A slip: the lock_guard stands at the top of the lambda, so that the file
\* is rendered with the mutex held.
RenderLocked(t) ==
  /\ task[t] = "render"
  /\ FileArrayMutex = 0
  /\ FileArrayMutex' = t
  /\ File' = [File EXCEPT ![t] = renderFile(Captured(t).SourceFile,
                                            Captured(t).FileReport, Options)]
  /\ task' = [task EXCEPT ![t] = "push"]
  /\ UNCHANGED << Caller, IgnoreFilters, Options, SourceFiles, FileReports,
                  Totals, pc, I, hw, NumThreads, Tasks, FileArray, Files,
                  Export, OS >>

\* The task renders its file into the local File, the mutex not held.
Render(t) ==
  /\ task[t] = "render"
  /\ File' = [File EXCEPT ![t] = renderFile(Captured(t).SourceFile,
                                            Captured(t).FileReport, Options)]
  /\ task' = [task EXCEPT ![t] = "lock"]
  /\ UNCHANGED << Caller, IgnoreFilters, Options, SourceFiles, FileReports, Totals, pc, I, hw,
                  NumThreads, Tasks, FileArray, FileArrayMutex, Files, Export, OS >>

\* A slip: the append is entered without the lock_guard.
LockMissing(t) ==
  /\ task[t] = "lock"
  /\ task' = [task EXCEPT ![t] = "push"]
  /\ UNCHANGED << Caller, IgnoreFilters, Options, SourceFiles, FileReports, Totals, pc, I, hw,
                  NumThreads, Tasks, File, FileArray, FileArrayMutex, Files,
                  Export, OS >>

\* std::lock_guard's constructor: the task waits until the mutex is free
\* and takes it.
Lock(t) ==
  /\ task[t] = "lock"
  /\ FileArrayMutex = 0
  /\ FileArrayMutex' = t
  /\ task' = [task EXCEPT ![t] = "push"]
  /\ UNCHANGED << Caller, IgnoreFilters, Options, SourceFiles, FileReports, Totals, pc, I, hw,
                  NumThreads, Tasks, File, FileArray, Files, Export, OS >>

\* FileArray.push_back(std::move(File)).
PushBack(t) ==
  /\ task[t] = "push"
  /\ FileArray' = Append(FileArray, File[t])
  /\ File' = [File EXCEPT ![t] = NoFile]
  /\ task' = [task EXCEPT ![t] = "unlock"]
  /\ UNCHANGED << Caller, IgnoreFilters, Options, SourceFiles, FileReports, Totals, pc, I, hw,
                  NumThreads, Tasks, FileArrayMutex, Files, Export, OS >>

\* A slip: the mutex is locked by hand and never unlocked.
UnlockMissing(t) ==
  /\ task[t] = "unlock"
  /\ task' = [task EXCEPT ![t] = "done"]
  /\ UNCHANGED << Caller, IgnoreFilters, Options, SourceFiles, FileReports,
                  Totals, pc, I, hw, NumThreads, Tasks, File, FileArray,
                  FileArrayMutex, Files, Export, OS >>

\* The end of the inner block: the lock_guard releases the mutex the task
\* holds, and the task is over.
Unlock(t) ==
  /\ task[t] = "unlock"
  /\ FileArrayMutex' = 0
  /\ task' = [task EXCEPT ![t] = "done"]
  /\ UNCHANGED << Caller, IgnoreFilters, Options, SourceFiles, FileReports, Totals, pc, I, hw,
                  NumThreads, Tasks, File, FileArray, Files, Export, OS >>

\* A slip: the call of Pool.wait() is missing.
PoolWaitMissing == TRUE

\* Pool.wait(): the calling thread is let through when the pool is idle.
PoolWait == PoolIdle

\* Pool.wait() returns and renderFiles returns FileArray.
renderFilesReturn ==
  /\ pc = "wait"
  /\ PoolWait
  /\ Files' = FileArray
  /\ pc' = "sort"
  /\ UNCHANGED << Caller, IgnoreFilters, Options, SourceFiles, FileReports, Totals, I, hw, NumThreads,
                  Tasks, task, File, FileArray, FileArrayMutex, Export, OS >>

\* --------------------------------------------------- renderRoot, the rest

\* A slip: the comparator orders the names descending.
FilenameGreater(A, B) == compare(A.filename, B.filename) > 0

\* The comparator handed to std::sort: both values are objects with a
\* string "filename", compared byte-wise.
FilenameLess(A, B) == compare(A.filename, B.filename) < 0

\* An array is ordered by the comparator when no element is less than one
\* before it.
Ordered(Arr) ==
  \A i, j \in 1..Len(Arr) : i < j => ~FilenameLess(Arr[j], Arr[i])

\* A slip: the array is left in the order the tasks completed.
stdsortMissing(Arr) == {Arr}

\* std::sort: some permutation of the array ordered by the comparator (which
\* one is unspecified among elements the comparator does not tell apart).
stdsort(Arr) ==
  {S \in {[i \in 1..Len(Arr) |-> Arr[p[i]]] : p \in Permutations(1..Len(Arr))} :
     Ordered(S)}

\* Sort files in order of their names.
Sort ==
  /\ pc = "sort"
  /\ Files' \in stdsort(Files)
  /\ pc' = "export"
  /\ UNCHANGED << Caller, IgnoreFilters, Options, SourceFiles, FileReports, Totals, I, hw, NumThreads,
                  Tasks, task, File, FileArray, FileArrayMutex, Export, OS >>

\* A slip: SkipFunctions is not looked at.
WithFunctionsUnlessSummary(Opts) == ~Opts.ExportSummaryOnly

\* Functions-level information is exported unless skipped.
WithFunctions(Opts) == ~Opts.ExportSummaryOnly /\ ~Opts.SkipFunctions

\* The export object: the files, the totals and, unless skipped, the
\* functions.
MakeExport ==
  /\ pc = "export"
  /\ LET Obj == [files |-> Files, totals |-> renderSummary(Totals)] IN
       Export' = IF WithFunctions(Options)
                   THEN Put(Obj, "functions", renderFunctions(getCoveredFunctions))
                   ELSE Obj
  /\ Files' = <<>>
  /\ pc' = "write"
  /\ UNCHANGED << Caller, IgnoreFilters, Options, SourceFiles, FileReports, Totals, I, hw, NumThreads,
                  Tasks, task, File, FileArray, FileArrayMutex, OS >>

LLVM_COVERAGE_EXPORT_JSON_STR == "2.0.0"

LLVM_COVERAGE_EXPORT_JSON_TYPE_STR == "llvm.coverage.json.export"

\* A slip: the export object is streamed out before the enveloped document.
WriteTwice ==
  /\ pc = "write"
  /\ OS' = OS \o << Export,
                    [version |-> LLVM_COVERAGE_EXPORT_JSON_STR,
                     type |-> LLVM_COVERAGE_EXPORT_JSON_TYPE_STR,
                     data |-> <<Export>>] >>
  /\ pc' = "done"
  /\ UNCHANGED << Caller, IgnoreFilters, Options, SourceFiles, FileReports, Totals, I, hw, NumThreads,
                  Tasks, task, File, FileArray, FileArrayMutex, Files, Export >>

\* The enveloped document is written to the stream.
Write ==
  /\ pc = "write"
  /\ OS' = Append(OS, [version |-> LLVM_COVERAGE_EXPORT_JSON_STR,
                       type |-> LLVM_COVERAGE_EXPORT_JSON_TYPE_STR,
                       data |-> <<Export>>])
  /\ Export' = NoFile
  /\ pc' = "done"
  /\ UNCHANGED << Caller, IgnoreFilters, Options, SourceFiles, FileReports, Totals, I, hw, NumThreads,
                  Tasks, task, File, FileArray, FileArrayMutex, Files >>

\* ------------------------------------------------------- the specification

Next ==
  \/ renderRootFilters
  \/ renderRoot
  \/ renderFilesBegin
  \/ Submit
  \/ \E t \in TaskIds : Start(t)
  \/ \E t \in TaskIds : Render(t)
  \/ \E t \in TaskIds : Lock(t)
  \/ \E t \in TaskIds : PushBack(t)
  \/ \E t \in TaskIds : Unlock(t)
  \/ renderFilesReturn
  \/ Sort
  \/ MakeExport
  \/ Write

Spec == Init /\ [][Next]_vars

\* ------------------------------------------------------------ properties

Range(Arr) == {Arr[i] : i \in 1..Len(Arr)}

\* A is before B in byte-wise order: A is a proper prefix of B, or the
\* first byte in which they differ is smaller in A.
BytewiseBefore(A, B) ==
  \E k \in 1..Len(B) :
    /\ k <= Len(A) + 1
    /\ \A m \in 1..(k - 1) : A[m] = B[m]
    /\ (k = Len(A) + 1 \/ A[k] < B[k])

StrictlyAscending(Arr) ==
  \A i \in 1..(Len(Arr) - 1) : BytewiseBefore(Arr[i].filename, Arr[i + 1].filename)

\* The file arrays of the documents written so far.
WrittenFiles == {OS[d].data[1].files : d \in 1..Len(OS)}

\* The file arrays past the sort: the sorted Files, the one moved into the
\* export object, those written.
SortedArrays ==
  (IF pc = "export" THEN {Files} ELSE {})
    \cup (IF pc = "write" THEN {Export.files} ELSE {})
    \cup WrittenFiles

\* renderFiles has returned.
Returned == pc \in {"sort", "export", "write", "done"}

\* C1: with pairwise distinct file names, the files array of the written
\* document (and already the array the sort leaves) is strictly ascending by
\* filename in byte-wise order, whatever the thread count and the order in
\* which the tasks completed.
C1_FilesStrictlySorted ==
  Distinct(SourceFiles) => \A Arr \in SortedArrays : StrictlyAscending(Arr)

\* C1 happens: three tasks on a pool of three threads completed out of name
\* order and the document is written.
C1_Witness ==
  /\ pc = "done"
  /\ Distinct(SourceFiles)
  /\ Len(SourceFiles) = 3
  /\ Options.NumThreads = 3
  /\ ~StrictlyAscending(FileArray)

\* C1 happens with more threads than files.
C1_WitnessMoreThreads ==
  /\ pc = "done"
  /\ Distinct(SourceFiles)
  /\ Len(SourceFiles) = 2
  /\ Options.NumThreads > 2
  /\ ~StrictlyAscending(FileArray)

\* The positions of the file list in ascending order of the names.
NameOrder ==
  CHOOSE p \in Permutations(1..Len(SourceFiles)) :
    \A i \in 1..(Len(SourceFiles) - 1) :
      BytewiseBefore(SourceFiles[p[i]], SourceFiles[p[i + 1]])

\* The document as the inputs alone determine it: the file list, the
\* summaries and the three export flags, neither the thread count nor the
\* hardware concurrency nor the schedule.
InputDocument ==
  LET Flags == [Options EXCEPT !.NumThreads = 0]
      Obj == [files |-> [k \in 1..Len(SourceFiles) |->
                           renderFile(SourceFiles[NameOrder[k]],
                                      FileReports[NameOrder[k]], Flags)],
              totals |-> renderSummary(Totals)]
  IN [version |-> "2.0.0",
      type |-> "llvm.coverage.json.export",
      data |-> << IF ~Flags.ExportSummaryOnly /\ ~Flags.SkipFunctions
                    THEN Put(Obj, "functions",
                             renderFunctions(getCoveredFunctions))
                    ELSE Obj >>]

\* C2: with pairwise distinct file names, the document written is the one
\* the inputs determine, so two runs that differ in the completion order of
\* the tasks or in the worker count write the same document.
C2_Deterministic ==
  (pc = "done" /\ Distinct(SourceFiles)) => OS = << InputDocument >>

\* C2 happens: the tasks completed in another order than they were
\* submitted, on a pool whose size was derived from the hardware.
C2_Witness ==
  /\ pc = "done"
  /\ Distinct(SourceFiles)
  /\ Len(SourceFiles) = 3
  /\ Options.NumThreads = 0
  /\ hw = 2
  /\ \E i \in 1..3 : FileArray[i].filename # SourceFiles[i]

\* C3: renderFiles returns only after every task it submitted has completed
\* its append: once it has returned (the sort may start), no task is queued,
\* rendering, waiting for the mutex or appending.
C3_JoinBarrier ==
  Returned => /\ I = Len(SourceFiles)
              /\ \A t \in TaskIds : task[t] = "done"

\* C3 happens: the caller is at the barrier while a task is still running,
\* so the barrier holds it back.
C3_WitnessBlocked ==
  /\ pc = "wait"
  /\ \E t \in TaskIds : task[t] = "push"
  /\ \E t \in TaskIds : task[t] = "queued"

\* C3 happens: renderFiles has returned from a pool of two threads that ran
\* three tasks.
C3_Witness ==
  /\ pc = "sort"
  /\ Len(SourceFiles) = 3
  /\ NumThreads = 2

\* The tasks inside the block the lock_guard guards.
Appending == {t \in TaskIds : task[t] \in {"push", "unlock"}}

\* C4: at most one task is appending to FileArray, and a task that is
\* appending holds FileArrayMutex.
C4_MutualExclusion ==
  /\ Cardinality(Appending) <= 1
  /\ \A t \in Appending : FileArrayMutex = t

\* C4 happens: one task is appending while two others have rendered their
\* file and wait for the mutex.
C4_Witness ==
  /\ \E t \in TaskIds : task[t] = "push"
  /\ Cardinality({t \in TaskIds : task[t] = "lock"}) = 2

\* The number of times each element occurs in a sequence.
BagOf(Arr) ==
  [x \in Range(Arr) |-> Cardinality({i \in 1..Len(Arr) : Arr[i] = x})]

Filenames(Arr) == [i \in 1..Len(Arr) |-> Arr[i].filename]

\* C5: what renderFiles returns holds one file object per element of the
\* file list: as many objects as files and the same multiset of names.
C5_Complete ==
  pc = "sort" => /\ Len(Files) = Len(SourceFiles)
                 /\ BagOf(Filenames(Files)) = BagOf(SourceFiles)

\* C5 happens: renderFiles has returned three objects, two of them of the
\* same file, collected in another order than submitted.
C5_Witness ==
  /\ pc = "sort"
  /\ Len(SourceFiles) = 3
  /\ ~Distinct(SourceFiles)
  /\ Filenames(Files) # SourceFiles
  /\ NumThreads = 3

\* Every file object there is: the tasks' locals, the shared array, the
\* array renderFiles returned, the export object's and the written ones.
FileObjects ==
  {File[t] : t \in {u \in TaskIds : File[u] # NoFile}}
    \cup Range(FileArray)
    \cup Range(Files)
    \cup (IF pc = "write" THEN Range(Export.files) ELSE {})
    \cup UNION {Range(Arr) : Arr \in WrittenFiles}

\* The export objects there are: the one being assembled and the written.
ExportObjects ==
  (IF pc = "write" THEN {Export} ELSE {})
    \cup {OS[d].data[1] : d \in 1..Len(OS)}

\* C6: every file object carries a summary, and it is the rendering of the
\* summary paired by index with the object's file name in the input lists.
C6_SummaryPaired ==
  \A Obj \in FileObjects :
    /\ "summary" \in DOMAIN Obj
    /\ \E i \in 1..Len(SourceFiles) :
         /\ SourceFiles[i] = Obj.filename
         /\ Obj.summary = renderSummary(FileReports[i])

\* C6 happens: a summary-only document of three files is written, the tasks
\* having completed in another order than submitted.
C6_Witness ==
  /\ pc = "done"
  /\ Options.ExportSummaryOnly
  /\ Distinct(SourceFiles)
  /\ Len(SourceFiles) = 3
  /\ Filenames(FileArray) # SourceFiles
  /\ Len(OS[1].data[1].files) = 3

\* std::clamp(V, Lo, Hi).
Clamp(V, Lo, Hi) == IF V < Lo THEN Lo ELSE IF Hi < V THEN Hi ELSE V

\* The pool exists.
PoolCreated == pc \notin {"renderRootFilters", "renderRoot", "renderFiles"}

\* C7 as stated: the pool has clamp(hardware concurrency, 1, number of
\* files) threads when NumThreads is 0, the configured number otherwise.
C7_AsStated ==
  PoolCreated =>
    NumThreads = IF Options.NumThreads = 0
                   THEN Clamp(hw, 1, Len(SourceFiles))
                   ELSE Options.NumThreads

\* C7, amended: the pool has the configured number of threads when that is
\* not 0, even beyond the number of files and the hardware concurrency; when
\* it is 0 the pool has clamp(hardware concurrency, 1, number of files)
\* threads if there is a file, and 1 thread if there is none.
C7_WorkerCount ==
  PoolCreated =>
    NumThreads = IF Options.NumThreads # 0 THEN Options.NumThreads
                 ELSE IF Len(SourceFiles) = 0 THEN 1
                 ELSE Clamp(hw, 1, Len(SourceFiles))

\* C7 happens: a pool of three threads, as configured, for a single file.
C7_Witness ==
  /\ PoolCreated
  /\ Options.NumThreads = 3
  /\ Len(SourceFiles) = 1
  /\ NumThreads = 3

\* C7 happens: no count configured, two cores, one file: one thread.
C7_WitnessDerived ==
  /\ PoolCreated
  /\ Options.NumThreads = 0
  /\ hw = 2
  /\ Len(SourceFiles) = 1
  /\ NumThreads = 1

\* C8: when only the summary is exported, no file object has segments or
\* expansions and no export object has functions, whatever SkipExpansions
\* and SkipFunctions say.
C8_SummaryOnly ==
  Options.ExportSummaryOnly =>
    /\ \A Obj \in FileObjects :
         "segments" \notin DOMAIN Obj /\ "expansions" \notin DOMAIN Obj
    /\ \A Obj \in ExportObjects : "functions" \notin DOMAIN Obj

\* C8 happens: a summary-only document of two files is written although
\* neither expansions nor functions are skipped.
C8_Witness ==
  /\ pc = "done"
  /\ Options.ExportSummaryOnly
  /\ ~Options.SkipExpansions
  /\ ~Options.SkipFunctions
  /\ Len(OS) = 1
  /\ Len(OS[1].data[1].files) = 2

\* C9: in a detailed export every file object has segments; it has
\* expansions exactly if they are not skipped.
C9_Expansions ==
  ~Options.ExportSummaryOnly =>
    \A Obj \in FileObjects :
      /\ "segments" \in DOMAIN Obj
      /\ "expansions" \in DOMAIN Obj <=> ~Options.SkipExpansions

\* C9 happens: a detailed document without expansions is written, one of
\* its files having an expansion in the mapping.
C9_Witness ==
  /\ pc = "done"
  /\ ~Options.ExportSummaryOnly
  /\ Options.SkipExpansions
  /\ Len(OS) = 1
  /\ \E Obj \in Range(OS[1].data[1].files) :
       /\ getCoverageForFile(Obj.filename).Expansions # <<>>
       /\ "segments" \in DOMAIN Obj
       /\ "expansions" \notin DOMAIN Obj

\* C9 happens, both flags off: a written file object has both keys.
C9_WitnessBoth ==
  /\ pc = "done"
  /\ ~Options.ExportSummaryOnly
  /\ ~Options.SkipExpansions
  /\ Len(OS) = 1
  /\ \E Obj \in Range(OS[1].data[1].files) :
       {"segments", "expansions"} \subseteq DOMAIN Obj

\* C10: an export object has the functions key if and only if neither
\* ExportSummaryOnly nor SkipFunctions is set.
C10_Functions ==
  \A Obj \in ExportObjects :
    "functions" \in DOMAIN Obj
      <=> (~Options.ExportSummaryOnly /\ ~Options.SkipFunctions)

\* C10 happens: a detailed document is written without functions because
\* they are skipped.
C10_Witness ==
  /\ pc = "done"
  /\ ~Options.ExportSummaryOnly
  /\ Options.SkipFunctions
  /\ Len(OS) = 1
  /\ "functions" \notin DOMAIN OS[1].data[1]
  /\ \E Obj \in Range(OS[1].data[1].files) : "segments" \in DOMAIN Obj

\* C10 happens: a document with functions is written.
C10_WitnessPresent ==
  /\ pc = "done"
  /\ Len(OS) = 1
  /\ "functions" \in DOMAIN OS[1].data[1]

\* C11: the segments array of a file object has one entry per segment the
\* mapping yields for that file, in the same order, and each entry is the
\* array [line, column, count, hasCount, isRegionEntry] of its segment.
C11_SegmentsPreserved ==
  \A Obj \in FileObjects :
    "segments" \in DOMAIN Obj =>
      LET Segments == getCoverageForFile(Obj.filename).Segments IN
        /\ Len(Obj.segments) = Len(Segments)
        /\ \A i \in 1..Len(Segments) :
             Obj.segments[i] = << Segments[i].Line, Segments[i].Col,
                                  Segments[i].Count, Segments[i].HasCount,
                                  Segments[i].IsRegionEntry >>

\* C11 happens: a detailed document is written with a file of two segments.
C11_Witness ==
  /\ pc = "done"
  /\ ~Options.ExportSummaryOnly
  /\ Len(OS) = 1
  /\ \E Obj \in Range(OS[1].data[1].files) :
       /\ "segments" \in DOMAIN Obj
       /\ Len(Obj.segments) = 2
       /\ Obj.segments[1][1] < Obj.segments[2][1]

\* The summary objects there are: those of the file objects and the totals
\* of the export objects.
SummaryObjects ==
  {Obj.summary : Obj \in {F \in FileObjects : "summary" \in DOMAIN F}}
    \cup {Obj.totals : Obj \in ExportObjects}

\* C12: in every rendered summary, per file and totals, covered is at most
\* count for lines, functions and instantiations, and the regions' notcovered
\* is exactly their count less their covered.
C12_SummaryNumbers ==
  \A Sum \in SummaryObjects :
    /\ Sum.lines.covered <= Sum.lines.count
    /\ Sum.functions.covered <= Sum.functions.count
    /\ Sum.instantiations.covered <= Sum.instantiations.count
    /\ Sum.regions.notcovered = Sum.regions.count - Sum.regions.covered

\* C12 happens: a document is written whose totals have covered and
\* uncovered regions, one of its files having all its functions covered.
C12_Witness ==
  /\ pc = "done"
  /\ Len(OS) = 1
  /\ OS[1].data[1].totals.regions.covered > 0
  /\ OS[1].data[1].totals.regions.notcovered > 1
  /\ \E Obj \in Range(OS[1].data[1].files) :
       Obj.summary.functions.covered = Obj.summary.functions.count

\* A task is in flight from its submission to the end of its append.
InFlight == {t \in TaskIds : task[t] \in {"queued", "render", "lock", "push", "unlock"}}

\* No name of the array is byte-wise before one that precedes it.
Ascending(Arr) ==
  \A i, j \in 1..Len(Arr) :
    i < j => ~BytewiseBefore(Arr[j].filename, Arr[i].filename)

\* The enveloped document: version, type and one export object with the
\* files, in the order the sort leaves, the totals and at most the functions.
IsDocument(Doc) ==
  /\ DOMAIN Doc = {"version", "type", "data"}
  /\ Doc.version = "2.0.0"
  /\ Doc.type = "llvm.coverage.json.export"
  /\ Len(Doc.data) = 1
  /\ {"files", "totals"} \subseteq DOMAIN Doc.data[1]
  /\ DOMAIN Doc.data[1] \subseteq {"files", "totals", "functions"}
  /\ Len(Doc.data[1].files) = Len(SourceFiles)
  /\ Ascending(Doc.data[1].files)
  /\ Doc.data[1].totals = renderSummary(Totals)

\* C13: renderRoot writes to the stream exactly once, when it is through:
\* nothing is written while it is under way, in particular while a task is in
\* flight or yet to be submitted, and what is written is the enveloped
\* document with one export object holding the sorted files and the totals.
C13_SingleWrite ==
  /\ Len(OS) = (IF pc = "done" THEN 1 ELSE 0)
  /\ OS # <<>> => /\ InFlight = {}
                  /\ \A t \in TaskIds : task[t] = "done"
  /\ \A d \in 1..Len(OS) : IsDocument(OS[d])

\* C13 happens: the files "ab", "a" are written as "a", "ab".
C13_Witness ==
  /\ pc = "done"
  /\ SourceFiles = << <<97, 98>>, <<97>> >>
  /\ Len(OS) = 1
  /\ Filenames(OS[1].data[1].files) = << <<97>>, <<97, 98>> >>
  /\ FileArray[1].filename = <<97, 98>>

\* The summaries have been prepared.
Prepared == pc \notin {"renderRootFilters", "renderRoot"}

\* The summaries of a list of file names, added up.
RECURSIVE SummaryOfAll(_)
SummaryOfAll(List) ==
  IF List = <<>> THEN EmptySummary
  ELSE AddSummary(SummaryOfAll(Tail(List)), SummaryOf(Head(List)))

\* C14: called with ignore filters, renderRoot exports exactly the unique
\* source files of the mapping the filters do not match; called with a list,
\* exactly that list. The summaries, the total and the written files are
\* those of that one list.
C14_FileList ==
  /\ (Caller = "filters" /\ pc # "renderRootFilters") =>
       /\ Range(SourceFiles) = NameSet \ IgnoreFilters
       /\ Distinct(SourceFiles)
  /\ Prepared =>
       /\ Len(FileReports) = Len(SourceFiles)
       /\ \A i \in 1..Len(SourceFiles) : FileReports[i] = SummaryOf(SourceFiles[i])
       /\ Totals = SummaryOfAll(SourceFiles)
  /\ \A d \in 1..Len(OS) :
       LET Exported == Filenames(OS[d].data[1].files) IN
         /\ BagOf(Exported) = BagOf(SourceFiles)
         /\ Caller = "filters" =>
              /\ Range(Exported) = NameSet \ IgnoreFilters
              /\ Len(Exported) = Cardinality(NameSet \ IgnoreFilters)
         /\ OS[d].data[1].totals = renderSummary(SummaryOfAll(Exported))
         /\ \A Obj \in Range(OS[d].data[1].files) :
              Obj.summary = renderSummary(SummaryOf(Obj.filename))

\* C14 happens: the filters match "ab" alone and the document of the two
\* other files is written.
C14_Witness ==
  /\ pc = "done"
  /\ Caller = "filters"
  /\ IgnoreFilters = {<<97, 98>>}
  /\ Len(OS) = 1
  /\ Len(OS[1].data[1].files) = 2

\* C14 happens with an explicit list: a file named twice is exported twice.
C14_WitnessList ==
  /\ pc = "done"
  /\ Caller = "list"
  /\ SourceFiles = << <<97>>, <<66>>, <<97>> >>
  /\ Len(OS) = 1
  /\ Filenames(OS[1].data[1].files) = << <<66>>, <<97>>, <<97>> >>

\* The steps of the thread that called renderRoot.
MainStep ==
  \/ renderRootFilters
  \/ renderRoot
  \/ renderFilesBegin
  \/ Submit
  \/ renderFilesReturn
  \/ Sort
  \/ MakeExport
  \/ Write

\* The steps of the pool thread running task t.
TaskStep(t) == Render(t) \/ Lock(t) \/ PushBack(t) \/ Unlock(t)

\* The calling thread has work left and cannot take its next step.
MainBlocked == pc # "done" /\ ~ENABLED MainStep

\* The tasks a pool thread runs that cannot take their next step.
BlockedTasks == {t \in Running : ~ENABLED TaskStep(t)}

\* The calling thread is at Pool.wait() and the pool is busy.
AtBarrier == pc = "wait" /\ ~PoolIdle

\* Task t is at the lock_guard while another task, which is appending,
\* holds FileArrayMutex.
AwaitsMutex(t) == task[t] = "lock" /\ FileArrayMutex \in Appending \ {t}

\* C15 as stated: the only blocking is that of the caller at Pool.wait(); a
\* task a pool thread runs never waits, not even for the mutex.
C15_AsStated ==
  /\ (pc # "done" /\ ~AtBarrier) => ENABLED MainStep
  /\ \A t \in Running : ENABLED TaskStep(t)

\* Every thread can take its next step, but for the caller at the busy
\* barrier and a task awaiting the mutex.
BlockedOnlyThere ==
  /\ (pc # "done" /\ ~AtBarrier) => ENABLED MainStep
  /\ \A t \in Running : ~AwaitsMutex(t) => ENABLED TaskStep(t)

\* C15, amended: at all times the calling thread blocks only at Pool.wait(),
\* while the pool is busy, and a task a pool thread runs waits in one place
\* only, at the lock_guard, and only while another task, which is appending,
\* holds FileArrayMutex.
C15_Blocking == []BlockedOnlyThere

\* C15 happens: the caller waits at the barrier and a task waits for the
\* mutex another task holds.
C15_Witness ==
  /\ pc = "wait"
  /\ MainBlocked
  /\ \E t \in BlockedTasks : task[t] = "lock" /\ FileArrayMutex # 0

\* The tasks that have been picked up and have not rendered their file yet.
Rendering == {t \in TaskIds : task[t] = "render"}

\* The mutex is held by a task that is appending: its file object is
\* rendered before the move and gone after it.
HeldToAppend ==
  /\ FileArrayMutex \in {0} \cup TaskIds
  /\ \A t \in TaskIds :
       FileArrayMutex = t =>
         /\ t \in Appending
         /\ task[t] = "push" => File[t] # NoFile
         /\ task[t] = "unlock" => File[t] = NoFile
  /\ \A t \in Rendering : FileArrayMutex # t

\* The step in which task t renders its file neither holds nor takes the
\* mutex and leaves the rendered object in File.
RenderUnlocked ==
  \A t \in TaskIds :
    (task[t] = "render" /\ task'[t] # "render") =>
      /\ FileArrayMutex # t
      /\ FileArrayMutex' # t
      /\ FileArrayMutex' = FileArrayMutex
      /\ File'[t] # NoFile

\* The step of task t that follows the move releases the mutex.
ReleasedAtOnce ==
  \A t \in TaskIds :
    (task[t] = "unlock" /\ task'[t] # "unlock") =>
      /\ FileArrayMutex' = 0
      /\ task'[t] = "done"

\* C16: a task holds FileArrayMutex only while it moves its rendered file
\* object into FileArray and releases it in its next step; renderFile runs
\* with the mutex not held.
C16_MinimalHold ==
  /\ []HeldToAppend
  /\ [][RenderUnlocked]_vars
  /\ [][ReleasedAtOnce]_vars

\* C16 happens: with two pool threads or more and two files or more, two
\* tasks are rendering at the same time, the mutex free.
C16_Witness ==
  /\ NumThreads >= 2
  /\ Len(SourceFiles) >= 2
  /\ Cardinality(Rendering) >= 2
  /\ FileArrayMutex = 0

\* The steps of one pool thread on task t: it picks the task up and runs
\* the lambda.
WorkerStep(t) == t \in TaskIds /\ (Start(t) \/ TaskStep(t))

\* The calls of renderRoot that differ in what the threads do: any number
\* of pool threads, any filters, a list of any length. The flags that only
\* shape the file objects are off and the lists are the first names in turn.
LiveInit ==
  /\ Init
  /\ ~Options.ExportSummaryOnly
  /\ ~Options.SkipExpansions
  /\ ~Options.SkipFunctions
  /\ \A i \in 1..Len(SourceFiles) :
       SourceFiles[i] = Names[((i - 1) % Len(Names)) + 1]

\* The program under fair scheduling: the calling thread and every pool
\* thread that can take a step eventually takes one. The mutex is not
\* fair, so a task's wait for it gets weak fairness only.
LiveSpec ==
  /\ LiveInit
  /\ [][Next]_vars
  /\ WF_vars(MainStep)
  /\ \A t \in 1..MaxFiles : WF_vars(WorkerStep(t))

\* Task t is submitted and not over.
Pending(t) == t \in InFlight

\* Task t has run to completion.
Completed(t) == t \in TaskIds /\ task[t] = "done"

\* The export is over: every file's task has run to completion and the one
\* document is written.
Exported ==
  /\ pc = "done"
  /\ Len(OS) = 1
  /\ \A t \in TaskIds : Completed(t)

\* C17: under fair scheduling every submitted task runs to completion, the
\* caller waiting at Pool.wait() is let through, and renderRoot writes the
\* document, whatever the number of pool threads.
C17_Liveness ==
  /\ \A t \in 1..MaxFiles : Pending(t) ~> Completed(t)
  /\ (pc = "wait") ~> (pc = "sort")
  /\ <>Exported

\* C17 happens: the export is over with fewer pool threads than files.
C17_Witness ==
  /\ Exported
  /\ NumThreads >= 1
  /\ NumThreads < Len(SourceFiles)

\* C17 happens: the export is over with more pool threads than files.
C17_WitnessMoreThreads ==
  /\ Exported
  /\ Len(SourceFiles) >= 1
  /\ NumThreads > Len(SourceFiles)

\* The keys renderFile may give a file object.
FileKeys == {"filename", "segments", "expansions", "summary"}

\* What the comparator asserts of a value and relies on: it is an object,
\* and its "filename" is there and is a string.
ComparatorAccepts(V) ==
  /\ V # NoFile
  /\ DOMAIN V \subseteq FileKeys
  /\ "filename" \in DOMAIN V
  /\ V.filename \in NameSet

\* C18: every element of the array std::sort is handed, and of the shared
\* array the tasks fill, is an object with a string "filename", for every
\* combination of options; the comparator's asserts and its getValue() hold.
C18_ComparatorSafe ==
  /\ \A V \in Range(FileArray) \cup Range(Files) : ComparatorAccepts(V)
  /\ \A t \in TaskIds : File[t] # NoFile => ComparatorAccepts(File[t])
  /\ pc = "sort" =>
       \A i, j \in 1..Len(Files) :
         FilenameLess(Files[i], Files[j]) \in BOOLEAN

\* C18 happens: std::sort is about to compare file objects of different
\* names that hold nothing but the name and the summary.
C18_Witness ==
  /\ pc = "sort"
  /\ Options.ExportSummaryOnly
  /\ \E i, j \in 1..Len(Files) :
       /\ Files[i].filename # Files[j].filename
       /\ DOMAIN Files[i] = {"filename", "summary"}

\* C18 happens: the same with segments and expansions in the objects.
C18_WitnessDetailed ==
  /\ pc = "sort"
  /\ ~Options.ExportSummaryOnly /\ ~Options.SkipExpansions
  /\ \E i, j \in 1..Len(Files) :
       /\ Files[i].filename # Files[j].filename
       /\ DOMAIN Files[i] = FileKeys

\* The pool size the policy chooses for this call.
ChosenPoolSize ==
  IF Options.NumThreads # 0 THEN Options.NumThreads
  ELSE IF hw < 1 \/ Len(SourceFiles) < 1 THEN 1
  ELSE IF hw < Len(SourceFiles) THEN hw
  ELSE Len(SourceFiles)

\* C19: the tasks a pool thread is running (rendering, waiting for the
\* mutex or appending) are never more than the pool size the policy chose;
\* every other submitted task that is not over is in the queue, once; and
\* the loop submits one task per file, whatever the pool size.
C19_BoundedParallelism ==
  /\ ~PoolCreated => Running = {} /\ Tasks = <<>>
  /\ PoolCreated =>
       /\ Cardinality(Running) <= ChosenPoolSize
       /\ Cardinality(Running) <= NumThreads
  /\ \A t \in TaskIds :
       /\ t > I => task[t] = "unsubmitted"
       /\ (PoolCreated /\ t <= I) => task[t] # "unsubmitted"
       /\ task[t] = "queued" <=> t \in Range(Tasks)
  /\ Cardinality(Range(Tasks)) = Len(Tasks)
  /\ pc \in {"wait", "sort", "export", "done"} => I = Len(SourceFiles)

\* C19 happens: every thread of a pool of two or more is busy while a task
\* waits in the queue.
C19_Witness ==
  /\ PoolCreated
  /\ ChosenPoolSize >= 2
  /\ Cardinality(Running) = ChosenPoolSize
  /\ Tasks # <<>>

\* C19 happens: a pool of one thread runs one task, two wait in the queue.
C19_WitnessOneThread ==
  /\ PoolCreated
  /\ ChosenPoolSize = 1
  /\ Cardinality(Running) = 1
  /\ Len(Tasks) = 2

\* The file list renderFiles gets is empty and the pool size is derived.
EmptyDerived ==
  /\ pc # "renderRootFilters"
  /\ Len(SourceFiles) = 0
  /\ Options.NumThreads = 0

\* C20: with an empty file list (none given, or every file filtered out)
\* and NumThreads 0, the pool has one thread, no task is submitted, Pool.wait()
\* lets the caller through at once, and renderRoot writes one document with
\* an empty "files" array and the rendered aggregate summary as "totals".
C20_EmptyList ==
  EmptyDerived =>
    /\ PoolCreated => NumThreads = 1
    /\ pc # "submit"
    /\ I = 0 /\ Tasks = <<>> /\ FileArray = <<>> /\ Running = {}
    /\ pc = "wait" => ENABLED renderFilesReturn
    /\ pc \in {"renderFiles", "wait", "sort", "export", "done"} =>
         Totals = SumSummaries(<<>>)
    /\ Len(OS) = (IF pc = "done" THEN 1 ELSE 0)
    /\ pc = "done" =>
         /\ IsDocument(OS[1])
         /\ OS[1].data[1].files = <<>>
         /\ OS[1].data[1].totals = renderSummary(Totals)

\* C20 happens: the filters match every file, the hardware offers two
\* threads, and the document is written.
C20_Witness ==
  /\ EmptyDerived
  /\ Caller = "filters"
  /\ IgnoreFilters = NameSet
  /\ hw = MaxHW
  /\ pc = "done"
  /\ OS[1].data[1].files = <<>>

\* C20 happens: an empty list is handed in, the hardware concurrency is
\* unknown (0), and the caller is at Pool.wait().
C20_WitnessNoHardware ==
  /\ EmptyDerived
  /\ Caller = "list"
  /\ hw = 0
  /\ pc = "wait"

====
